---- MODULE Spec2Model ----
(***************************************************************************)
(* Model of scoreboard.js: the MLB box-score terminal grid.                *)
(*                                                                         *)
(* A JavaScript string is modelled as a sequence of tokens.  A token is    *)
(* an ANSI colour escape (visible width 0), a wide glyph (an emoji circle, *)
(* visible width 2), a narrow glyph (a base square, width 1) or a piece of *)
(* plain text (width = its number of characters).  An optional value       *)
(* (x?.y that may be undefined) is the empty sequence when absent and the  *)
(* one-element sequence <<v>> when present.                                *)
(***************************************************************************)
EXTENDS Integers, Sequences, FiniteSets, TLC

VARIABLES pc, args, FavTeam, data, games, out, i, gamesPerRow, rows, call, result

vars == <<pc, args, FavTeam, data, games, out, i, gamesPerRow, rows, call, result>>

-----------------------------------------------------------------------------
(* Optional values *)

None == <<>>

Some(v) == <<v>>

IsSome(o) == Len(o) > 0

\* o ?? d
OrElse(o, d) == IF IsSome(o) THEN o[1] ELSE d

Max(a, b) == IF a >= b THEN a ELSE b

Min(a, b) == IF a <= b THEN a ELSE b

-----------------------------------------------------------------------------
(* Strings, colours, visible width *)

\* chalk styles: the escape sequences that open and close each style
Bold == [open |-> "ESC[1m", close |-> "ESC[22m"]

White == [open |-> "ESC[37m", close |-> "ESC[39m"]

Black == [open |-> "ESC[30m", close |-> "ESC[39m"]

Red == [open |-> "ESC[31m", close |-> "ESC[39m"]

Green == [open |-> "ESC[32m", close |-> "ESC[39m"]

Yellow == [open |-> "ESC[33m", close |-> "ESC[39m"]

Magenta == [open |-> "ESC[35m", close |-> "ESC[39m"]

Cyan == [open |-> "ESC[36m", close |-> "ESC[39m"]

BgWhite == [open |-> "ESC[47m", close |-> "ESC[49m"]

AnsiCodes == {"ESC[1m", "ESC[22m", "ESC[30m", "ESC[31m", "ESC[32m", "ESC[33m",
              "ESC[35m", "ESC[36m", "ESC[37m", "ESC[39m", "ESC[47m", "ESC[49m"}

\* the indicator circles (green, red, yellow, white): emoji, two columns wide
GreenCircle == "U+1F7E2"

RedCircle == "U+1F534"

YellowCircle == "U+1F7E1"

WhiteCircle == "U+26AA"

WideGlyphs == {GreenCircle, RedCircle, YellowCircle, WhiteCircle}

\* the base squares: one column wide
filled == "U+25A0"

empty == "U+25A1"

NarrowGlyphs == {filled, empty}

\* chalk.<style>(s): s wrapped in the style's escapes
chalk(style, s) == IF s = <<>> THEN s ELSE <<style.open>> \o s \o <<style.close>>

\* chalk.<outer>.<inner>(s)
chalk2(outer, inner, s) ==
    IF s = <<>> THEN s
    ELSE <<outer.open, inner.open>> \o s \o <<inner.close, outer.close>>

TokenWidth(t) ==
    IF t \in AnsiCodes THEN 0
    ELSE IF t \in WideGlyphs THEN 2
    ELSE IF t \in NarrowGlyphs THEN 1
    ELSE Len(t)

RECURSIVE stringWidth(_)
\* string-width: visible columns of a string, escapes not counted
stringWidth(str) ==
    IF str = <<>> THEN 0
    ELSE TokenWidth(Head(str)) + stringWidth(Tail(str))

\* String.prototype.repeat(n) for n >= 0
Repeat(s, n) == [k \in 1..n |-> s]

\* String.prototype.repeat(n) raises RangeError for n < 0
RepeatThrows(n) == n < 0

RECURSIVE RawLength(_)
\* str.length: every token counted, escapes included
RawLength(str) ==
    IF str = <<>> THEN 0
    ELSE Len(Head(str)) + RawLength(Tail(str))

\* padtoWidth measuring with str.length instead of string-width
padtoWidthByLength(str, targetWidth) ==
    LET padding == Max(0, targetWidth - RawLength(str))
    IN  str \o Repeat(" ", padding)

padtoWidth(str, targetWidth) ==
    LET padding == Max(0, targetWidth - stringWidth(str))
    IN  str \o Repeat(" ", padding)

renderCirclesThrows(count, total) ==
    RepeatThrows(count) \/ RepeatThrows(total - count)

\* renderCircles drawing the empty glyphs first
renderCirclesEmptyFirst(count, total, filledGlyph, emptyGlyph) ==
    Repeat(emptyGlyph, total - count) \o Repeat(filledGlyph, count)

renderCircles(count, total, filledGlyph, emptyGlyph) ==
    Repeat(filledGlyph, count) \o Repeat(emptyGlyph, total - count)

-----------------------------------------------------------------------------
\* renderGameGrid's columnWidth parameter, always left at its default
columnWidth == 30

(* Game records.  The optional chains of the source (game.linescore?.x,    *)
(* game.decisions?.winner?.fullName, ...) yield undefined when any link is *)
(* missing, so a game is flattened to its leaves, each an optional value.  *)
(* A full name is a non-empty sequence of words, joined by single spaces.  *)

RECURSIVE JoinWords(_)
\* the full-name string: the words separated by " "
JoinWords(words) ==
    IF Len(words) = 1 THEN <<words[1]>>
    ELSE <<words[1], " ">> \o JoinWords(Tail(words))

\* fullName.split(" ").slice(-1)[0]
LastName(words) == words[Len(words)]

\* `${n}` of an optional number, with the default of the ?? beside it
NumOr(o, d) == IF IsSome(o) THEN ToString(o[1]) ELSE d

\* status.includes(marker): a status is a sequence of phrases, and the
\* markers the source looks for are phrases of their own
Includes(status, marker) == \E k \in DOMAIN status : status[k] = marker

formatProbablePitcher(pitcher) ==
    LET hand  == IF IsSome(pitcher) THEN OrElse(pitcher[1].hand, "?") ELSE "?"
        stats == IF IsSome(pitcher) THEN OrElse(pitcher[1].summary, "undefined")
                 ELSE "undefined"
    IN  <<hand, "HP ", stats>>

\* `X: ${person?.fullName ?? d}` without the prefix
FullNameOr(o, d) == IF IsSome(o) THEN JoinWords(o[1]) ELSE <<d>>

\* pitcher?.fullName of a probable pitcher
ProbableName(pitcher) ==
    IF IsSome(pitcher) /\ IsSome(pitcher[1].fullName)
    THEN JoinWords(pitcher[1].fullName[1]) ELSE <<"-">>

isLive(game) == Includes(game.status, "In Progress")

statusColor(status) ==
    IF Includes(status, "Final") THEN Red
    ELSE IF Includes(status, "In Progress") THEN Green
    ELSE Yellow

\* the line-score row of one team
LineScoreRow(abbr, rhe) ==
    padtoWidth(
        chalk2(BgWhite, Black,
               padtoWidth(<<abbr>>, 6) \o <<" ">>
               \o padtoWidth(<<"R:", NumOr(rhe.runs, "-")>>, 5) \o <<" ">>
               \o padtoWidth(<<"H:", NumOr(rhe.hits, "-")>>, 5) \o <<" ">>
               \o padtoWidth(<<"E:", NumOr(rhe.errors, "-")>>, 5)),
        columnWidth)

LiveBlock(game) ==
    LET balls      == OrElse(game.balls, 0)
        strikes    == OrElse(game.strikes, 0)
        outs       == OrElse(game.outs, 0)
        pitcher    == IF IsSome(game.pitcher) THEN LastName(game.pitcher[1]) ELSE "?"
        batter     == IF IsSome(game.batter) THEN LastName(game.batter[1]) ELSE "?"
        thirdBase  == IF game.third THEN filled ELSE empty
        secondBase == IF game.second THEN filled ELSE empty
        firstBase  == IF game.first THEN filled ELSE empty
    IN  << padtoWidth(chalk(Cyan, <<"P: ", pitcher>>), (columnWidth * 2) \div 3)
             \o padtoWidth(renderCircles(balls, 4, GreenCircle, WhiteCircle),
                           columnWidth \div 3),
           padtoWidth(chalk(Magenta, <<"B: ", batter>>), (columnWidth * 2) \div 3)
             \o padtoWidth(renderCircles(strikes, 3, RedCircle, WhiteCircle),
                           columnWidth \div 3),
           padtoWidth(<<"          ", secondBase>>, (columnWidth * 2) \div 3)
             \o padtoWidth(renderCircles(outs, 3, YellowCircle, WhiteCircle),
                           columnWidth \div 3),
           padtoWidth(<<"        ", thirdBase, "   ", firstBase>>, columnWidth) >>

FinalBlock(game) ==
    << padtoWidth(chalk(Cyan, <<"W: ">> \o FullNameOr(game.winner, "?")), columnWidth),
       padtoWidth(chalk(Magenta, <<"L: ">> \o FullNameOr(game.loser, "?")), columnWidth),
       padtoWidth(chalk(Yellow, <<"S: ">> \o FullNameOr(game.save, "-")), columnWidth),
       padtoWidth(<<" ">>, columnWidth) >>

ScheduledBlock(game) ==
    << padtoWidth(chalk(Cyan, <<"H: ">> \o ProbableName(game.homeProbable)), columnWidth),
       padtoWidth(chalk(Cyan, formatProbablePitcher(game.homeProbable)), columnWidth),
       padtoWidth(chalk(Magenta, <<"A: ">> \o ProbableName(game.awayProbable)), columnWidth),
       padtoWidth(chalk(Magenta, formatProbablePitcher(game.awayProbable)), columnWidth) >>

OtherBlock ==
    << padtoWidth(<<" ">>, columnWidth), padtoWidth(<<" ">>, columnWidth),
       padtoWidth(<<" ">>, columnWidth), padtoWidth(<<" ">>, columnWidth) >>

\* the spread ...(isLive ? [...] : status.includes("Final") ? [...] : ...)
StatusBlock(game) ==
    IF isLive(game) THEN LiveBlock(game)
    ELSE IF Includes(game.status, "Final") THEN FinalBlock(game)
    ELSE IF Includes(game.status, "Scheduled") \/ Includes(game.status, "Pre-Game")
         THEN ScheduledBlock(game)
    ELSE OtherBlock

contentLines(game) ==
    LET inning == IF IsSome(game.inningHalf) /\ IsSome(game.currentInning)
                     /\ game.currentInning[1] # 0
                  THEN <<game.inningHalf[1], " ", ToString(game.currentInning[1])>>
                  ELSE <<"-">>
    IN  << padtoWidth(chalk2(Bold, White, <<game.away, " @ ", game.home>>), columnWidth),
           padtoWidth(<<"Status: ">> \o chalk(statusColor(game.status), game.status),
                      columnWidth),
           padtoWidth(<<"Inning: ">> \o inning, columnWidth),
           LineScoreRow(game.away, game.awayRHE),
           LineScoreRow(game.home, game.homeRHE) >>
        \o StatusBlock(game)

\* the indicator rows are built only for a live game; a negative repeat
\* count there raises RangeError out of formatGameBox
formatGameBoxThrows(game) ==
    /\ isLive(game)
    /\ \/ renderCirclesThrows(OrElse(game.balls, 0), 4)
       \/ renderCirclesThrows(OrElse(game.strikes, 0), 3)
       \/ renderCirclesThrows(OrElse(game.outs, 0), 3)

formatGameBox(game) ==
    LET borderTop    == chalk(White, <<"+">> \o Repeat("-", columnWidth) \o <<"+">>)
        borderBottom == borderTop
        lines        == contentLines(game)
    IN  <<borderTop>>
        \o [k \in 1..Len(lines) |->
              chalk(White, <<"|">>) \o lines[k] \o chalk(White, <<"|">>)]
        \o <<borderBottom>>

-----------------------------------------------------------------------------
(* Grid layout: one iteration of the chunk loop of renderGameGrid *)

\* the chunk always cut from the head of the list: games.slice(0, gamesPerRow)
SliceFromHead(gs, from, n) == SubSeq(gs, 1, Min(Len(gs), n))

\* games.slice(i, i + gamesPerRow), i counted from 0
Slice(gs, from, n) == SubSeq(gs, from + 1, Min(Len(gs), from + n))

RECURSIVE MaxOf(_)
\* Math.max(...heights) of a non-empty list
MaxOf(heights) ==
    IF Len(heights) = 1 THEN heights[1]
    ELSE Max(heights[1], MaxOf(Tail(heights)))

maxHeight(boxes) == MaxOf([k \in 1..Len(boxes) |-> Len(boxes[k])])

\* padding that always appends one filler line too many
PadBoxOneMore(box, height) ==
    box \o [k \in 1..(height - Len(box) + 1) |-> Repeat(" ", columnWidth)]

\* [...box, ...Array(linesToAdd).fill(emptyLine)]
PadBox(box, height) ==
    LET linesToAdd == height - Len(box)
        emptyLine  == Repeat(" ", columnWidth)
    IN  box \o [k \in 1..linesToAdd |-> emptyLine]

paddedBoxes(boxes) == [k \in 1..Len(boxes) |-> PadBox(boxes[k], maxHeight(boxes))]

RECURSIVE JoinLines(_, _)
\* array.join(sep)
JoinLines(parts, sep) ==
    IF Len(parts) = 0 THEN <<>>
    ELSE IF Len(parts) = 1 THEN parts[1]
    ELSE parts[1] \o <<sep>> \o JoinLines(Tail(parts), sep)

\* the console.log calls of one chunk: one per line, then the blank line
RowOutput(padded, height) ==
    [line \in 1..height |->
        JoinLines([k \in 1..Len(padded) |-> padded[k][line]], "  ")]
    \o << <<>> >>

ChunkThrows(chunk) == \E k \in 1..Len(chunk) : formatGameBoxThrows(chunk[k])

-----------------------------------------------------------------------------
(* Favourite-team reordering *)

\* the comparator with its two results exchanged
CompareSwapped(a, b, fav) ==
    LET aHas == fav \in {a.home, a.away}
        bHas == fav \in {b.home, b.away}
    IN  IF aHas /\ ~bHas THEN 1
        ELSE IF ~aHas /\ bHas THEN -1
        ELSE 0

\* the comparator handed to games.sort
Compare(a, b, fav) ==
    LET aHas == fav \in {a.home, a.away}
        bHas == fav \in {b.home, b.away}
    IN  IF aHas /\ ~bHas THEN -1
        ELSE IF ~aHas /\ bHas THEN 1
        ELSE 0

RECURSIVE InsertGame(_, _, _)
InsertGame(sorted, x, fav) ==
    IF Len(sorted) = 0 THEN <<x>>
    ELSE IF Compare(sorted[Len(sorted)], x, fav) > 0
         THEN Append(InsertGame(SubSeq(sorted, 1, Len(sorted) - 1), x, fav),
                     sorted[Len(sorted)])
    ELSE Append(sorted, x)

RECURSIVE SortFrom(_, _, _)
SortFrom(sorted, rest, fav) ==
    IF Len(rest) = 0 THEN sorted
    ELSE SortFrom(InsertGame(sorted, Head(rest), fav), Tail(rest), fav)

\* Array.prototype.sort with the comparator: a stable sort (ECMAScript 2019),
\* computed here by insertion
SortGames(gs, fav) == SortFrom(<<>>, gs, fav)

-----------------------------------------------------------------------------
(* Inputs *)

MaxGames == 4

MaxPerRow == 3

MaxPhrases == 2

MaxOver == 1

MaxStrLen == 3

MaxW == 6

MaxTotal == 4

RECURSIVE SeqsUpTo(_, _)
\* the sequences over S of length at most n
SeqsUpTo(S, n) ==
    IF n = 0 THEN {<<>>}
    ELSE LET shorter == SeqsUpTo(S, n - 1)
         IN  shorter \cup {Append(q, x) : q \in shorter, x \in S}

Pitcher(words, hand, summary) ==
    [fullName |-> Some(words), hand |-> Some(hand), summary |-> Some(summary)]

\* a game with every optional field present
FullGame(home, away, status) ==
    [home |-> home, away |-> away, status |-> status,
     inningHalf |-> Some("Top"), currentInning |-> Some(5),
     awayRHE |-> [runs |-> Some(3), hits |-> Some(7), errors |-> Some(0)],
     homeRHE |-> [runs |-> Some(12), hits |-> Some(15), errors |-> Some(1)],
     balls |-> Some(2), strikes |-> Some(1), outs |-> Some(0),
     pitcher |-> Some(<<"Gerrit", "Cole">>), batter |-> Some(<<"Rafael", "Devers">>),
     first |-> FALSE, second |-> TRUE, third |-> FALSE,
     winner |-> Some(<<"A", "Pitcher">>), loser |-> Some(<<"B", "Pitcher">>),
     save |-> Some(<<"C", "Closer">>),
     homeProbable |-> Some(Pitcher(<<"Gerrit", "Cole">>, "R", "3-1, 2.45 ERA")),
     awayProbable |-> Some(Pitcher(<<"Chris", "Sale">>, "L", "2-2, 3.10 ERA"))]

NoRHE == [runs |-> None, hits |-> None, errors |-> None]

DropRHE(rhe, absent) ==
    [runs   |-> IF "runs" \in absent THEN None ELSE rhe.runs,
     hits   |-> IF "hits" \in absent THEN None ELSE rhe.hits,
     errors |-> IF "errors" \in absent THEN None ELSE rhe.errors]

DropPitcher(p, absent) ==
    IF "probable" \in absent THEN None
    ELSE Some([fullName |-> IF "fullName" \in absent THEN None ELSE p[1].fullName,
               hand     |-> IF "hand" \in absent THEN None ELSE p[1].hand,
               summary  |-> IF "summary" \in absent THEN None ELSE p[1].summary])

\* the game g with the optional fields named in absent missing
Drop(g, absent) ==
    LET noLine == "linescore" \in absent
        gone(f) == noLine \/ f \in absent
    IN  [home |-> g.home, away |-> g.away, status |-> g.status,
         inningHalf    |-> IF gone("inning") THEN None ELSE g.inningHalf,
         currentInning |-> IF noLine THEN None ELSE g.currentInning,
         awayRHE |-> IF noLine THEN NoRHE ELSE DropRHE(g.awayRHE, absent),
         homeRHE |-> IF noLine THEN NoRHE ELSE DropRHE(g.homeRHE, absent),
         balls   |-> IF gone("counts") THEN None ELSE g.balls,
         strikes |-> IF gone("counts") THEN None ELSE g.strikes,
         outs    |-> IF gone("counts") THEN None ELSE g.outs,
         pitcher |-> IF gone("pitcher") THEN None ELSE g.pitcher,
         batter  |-> IF gone("batter") THEN None ELSE g.batter,
         first   |-> IF noLine THEN FALSE ELSE g.first,
         second  |-> IF noLine THEN FALSE ELSE g.second,
         third   |-> IF noLine THEN FALSE ELSE g.third,
         winner  |-> IF "winner" \in absent THEN None ELSE g.winner,
         loser   |-> IF "loser" \in absent THEN None ELSE g.loser,
         save    |-> IF "save" \in absent THEN None ELSE g.save,
         homeProbable |-> DropPitcher(g.homeProbable, absent),
         awayProbable |-> DropPitcher(g.awayProbable, absent)]

OptionalFields ==
    {"linescore", "runs", "hits", "errors", "inning", "counts", "pitcher", "batter",
     "winner", "loser", "save", "probable", "fullName", "hand", "summary"}

CommonFields == {"linescore", "runs", "hits", "errors", "inning"}

\* the optional fields the status-dependent block of a status reads
BlockFields(status) ==
    IF Includes(status, "In Progress") THEN {"counts", "pitcher", "batter"}
    ELSE IF Includes(status, "Final") THEN {"winner", "loser", "save"}
    ELSE IF Includes(status, "Scheduled") \/ Includes(status, "Pre-Game")
         THEN {"probable", "fullName", "hand", "summary"}
    ELSE {}

\* every subset of the fields the box of this status shows, with the fields
\* it does not show all present or all absent
AbsentSets(status) ==
    LET shown == CommonFields \cup BlockFields(status)
    IN  {A \cup B : A \in SUBSET shown, B \in {{}, OptionalFields \ shown}}

ClassStatuses ==
    {<<"In Progress">>, <<"Final">>, <<"Scheduled">>, <<"Pre-Game">>, <<"Postponed">>}

Phrases == {"In Progress", "Final", "Scheduled", "Pre-Game", "Postponed", "Delayed Start"}

StatusSet == SeqsUpTo(Phrases, MaxPhrases) \ {<<>>}

Names ==
    {<<"A", "Pitcher">>, <<"Cole">>, <<"Simeon", "Woods", "Richardson">>,
     <<"Christopher", "Featherstonehaugh-Smythe">>}

WithName(g, n) ==
    [g EXCEPT !.pitcher = Some(n), !.batter = Some(n), !.winner = Some(n),
              !.loser = Some(n), !.save = Some(n),
              !.homeProbable = Some(Pitcher(n, "R", "3-1, 2.45 ERA")),
              !.awayProbable = Some(Pitcher(n, "L", "2-2, 3.10 ERA"))]

\* counts up to MaxOver outside the indicator's range 0..total
CountRange(total) == (0 - MaxOver)..(total + MaxOver)

BoxGames ==
    {FullGame("NYY", "BOS", st) : st \in StatusSet}
    \cup UNION {{Drop(FullGame("NYY", "BOS", st), A) : A \in AbsentSets(st)} :
                  st \in ClassStatuses}
    \cup {WithName(FullGame("NYY", "BOS", st), n) : st \in ClassStatuses, n \in Names}
    \cup {[FullGame("NYY", "BOS", <<"In Progress">>) EXCEPT
             !.balls = Some(b), !.strikes = Some(k), !.outs = Some(o),
             !.first = bases[1], !.second = bases[2], !.third = bases[3]] :
            b \in CountRange(4), k \in CountRange(3), o \in CountRange(3),
            bases \in BOOLEAN \X BOOLEAN \X BOOLEAN}

PadTokens == {"a", "abc", " ", "ESC[31m", "ESC[39m", GreenCircle}

PadCalls ==
    {[fn |-> "padtoWidth", str |-> str, targetWidth |-> w] :
        str \in SeqsUpTo(PadTokens, MaxStrLen), w \in 0..MaxW}

CircleCalls ==
    {[fn |-> "renderCircles", count |-> c, total |-> t, filled |-> f, empty |-> WhiteCircle] :
        t \in 0..MaxTotal, c \in (0 - MaxOver)..(MaxTotal + MaxOver),
        f \in {GreenCircle, RedCircle, YellowCircle}}

BoxCalls == {[fn |-> "formatGameBox", game |-> g] : g \in BoxGames}

\* the games the schedule feed of the program run may list
FeedGames ==
    {FullGame("NYY", "BOS", <<"In Progress">>),
     Drop(FullGame("SF", "LAD", <<"Final">>), {"save"}),
     Drop(FullGame("TOR", "NYY", <<"Scheduled">>), {"linescore", "summary"}),
     Drop(FullGame("SEA", "HOU", <<"Postponed">>), {"linescore"}),
     [FullGame("BOS", "CHC", <<"In Progress">>) EXCEPT !.balls = Some(5)]}

GameLists == SeqsUpTo(FeedGames, MaxGames)

\* response.data: dates missing, dates empty, dates[0] without games, or a list
Responses ==
    {[dates |-> None], [dates |-> Some(<<>>)], [dates |-> Some(<<[games |-> None]>>)]}
    \cup {[dates |-> Some(<<[games |-> Some(gs)]>>)] : gs \in GameLists}

\* process.argv.slice(2)
ArgLists ==
    {<<>>, <<"--f">>, <<"--f", "nyy">>, <<"--f", "BOS">>, <<"--f", "">>, <<"nyy", "--f", "bos">>}

-----------------------------------------------------------------------------
(* The program run *)

ToUpperCase(w) ==
    CASE w = "nyy" -> "NYY"
      [] w = "bos" -> "BOS"
      [] w = "--f" -> "--F"
      [] OTHER -> w

\* args.indexOf('--f'), counted from 1; args contains '--f'
IndexOfFlag(a) == CHOOSE k \in 1..Len(a) : a[k] = "--f" /\ \A j \in 1..(k - 1) : a[j] # "--f"

\* the FavTeam constant: null or undefined is the absent value
ParseFavTeam(a) ==
    IF \E k \in 1..Len(a) : a[k] = "--f"
    THEN IF IndexOfFlag(a) + 1 <= Len(a)
         THEN Some(ToUpperCase(a[IndexOfFlag(a) + 1]))
         ELSE None
    ELSE None

\* if (FavTeam): the absent value and the empty string are falsy
Truthy(fav) == IsSome(fav) /\ fav[1] # ""

\* data.dates?.[0]?.games || []
GamesOf(d) ==
    IF IsSome(d.dates) /\ Len(d.dates[1]) > 0 /\ IsSome(d.dates[1][1].games)
    THEN d.dates[1][1].games[1]
    ELSE <<>>

NoCall == [fn |-> "none"]

NoResult == [threw |-> FALSE, value |-> <<>>]

Init ==
    /\ pc = "start"
    /\ args \in ArgLists
    /\ FavTeam = None
    /\ data = [dates |-> None]
    /\ games = <<>>
    /\ out = <<>>
    /\ i = 0
    /\ gamesPerRow = 0
    /\ rows = <<>>
    /\ call = NoCall
    /\ result = NoResult

\* the FavTeam constant is computed from the command line
Start ==
    /\ pc = "start"
    /\ FavTeam' = ParseFavTeam(args)
    /\ pc' = "fetch"
    /\ UNCHANGED <<args, data, games, out, i, gamesPerRow, rows, call, result>>

\* await axios.get(url) resolves; games is read from the response
Fetch ==
    /\ pc = "fetch"
    /\ \E d \in Responses :
         /\ data' = d
         /\ games' = GamesOf(d)
    /\ pc' = "check"
    /\ UNCHANGED <<args, FavTeam, out, i, gamesPerRow, rows, call, result>>

\* await axios.get(url) rejects: the fault is not caught
FetchFails ==
    /\ pc = "fetch"
    /\ pc' = "fetch_failed"
    /\ UNCHANGED <<args, FavTeam, data, games, out, i, gamesPerRow, rows, call, result>>

\* the emptiness test that never succeeds
isEmptyNever(gs) == Len(gs) < 0

isEmpty(gs) == Len(gs) = 0

\* if (games.length === 0) { console.log("No Games found."); process.exit(); }
NoGames ==
    /\ pc = "check"
    /\ isEmpty(games)
    /\ out' = Append(out, <<"No Games found.">>)
    /\ pc' = "exited"
    /\ UNCHANGED <<args, FavTeam, data, games, i, gamesPerRow, rows, call, result>>

\* the title banner and the date line
Banner ==
    /\ pc = "check"
    /\ ~isEmpty(games)
    /\ out' = out \o << chalk2(Green, Bold, <<"figlet(MLB Box Scores)">>),
                       chalk2(Bold, Green, <<"today">>) >>
    /\ pc' = "reorder"
    /\ UNCHANGED <<args, FavTeam, data, games, i, gamesPerRow, rows, call, result>>

\* if (FavTeam) games.sort(...); then renderGameGrid(games, 3) is entered
Reorder ==
    /\ pc = "reorder"
    /\ games' = IF Truthy(FavTeam) THEN SortGames(games, FavTeam[1]) ELSE games
    /\ gamesPerRow' = 3
    /\ i' = 0
    /\ pc' = "grid"
    /\ UNCHANGED <<args, FavTeam, data, out, rows, call, result>>

\* one iteration of the chunk loop: format, pad, print
RenderRow ==
    /\ pc = "grid"
    /\ i < Len(games)
    /\ LET chunk == Slice(games, i, gamesPerRow)
       IN  IF ChunkThrows(chunk)
           THEN /\ pc' = "crashed"
                /\ UNCHANGED <<out, i, rows>>
           ELSE LET boxes  == [k \in 1..Len(chunk) |-> formatGameBox(chunk[k])]
                    height == maxHeight(boxes)
                    padded == paddedBoxes(boxes)
                IN  /\ out' = out \o RowOutput(padded, height)
                    /\ rows' = Append(rows, [chunk |-> chunk, boxes |-> boxes,
                                             maxHeight |-> height, paddedBoxes |-> padded,
                                             start |-> Len(out)])
                    /\ i' = i + gamesPerRow
                    /\ pc' = "grid"
    /\ UNCHANGED <<args, FavTeam, data, games, gamesPerRow, call, result>>

\* the loop condition fails: renderGameGrid returns
RenderDone ==
    /\ pc = "grid"
    /\ i >= Len(games)
    /\ pc' = "done"
    /\ UNCHANGED <<args, FavTeam, data, games, out, i, gamesPerRow, rows, call, result>>

Next == Start \/ Fetch \/ FetchFails \/ NoGames \/ Banner \/ Reorder \/ RenderRow \/ RenderDone

Spec == Init /\ [][Next]_vars

-----------------------------------------------------------------------------
(* renderGameGrid called on its own, for every list and row size *)

InitGrid ==
    /\ pc = "grid"
    /\ args = <<>>
    /\ FavTeam = None
    /\ data = [dates |-> None]
    /\ games \in GameLists
    /\ out = <<>>
    /\ i = 0
    /\ gamesPerRow \in 1..MaxPerRow
    /\ rows = <<>>
    /\ call = NoCall
    /\ result = NoResult

NextGrid == RenderRow \/ RenderDone

SpecGrid == InitGrid /\ [][NextGrid]_vars

-----------------------------------------------------------------------------
(* The pure functions called on their own *)

InitFn ==
    /\ pc = "call"
    /\ args = <<>>
    /\ FavTeam = None
    /\ data = [dates |-> None]
    /\ games = <<>>
    /\ out = <<>>
    /\ i = 0
    /\ gamesPerRow = 0
    /\ rows = <<>>
    /\ call \in PadCalls \cup CircleCalls \cup BoxCalls
    /\ result = NoResult

Return(threw, value) ==
    /\ result' = [threw |-> threw, value |-> IF threw THEN <<>> ELSE value]
    /\ pc' = IF threw THEN "threw" ELSE "returned"
    /\ UNCHANGED <<args, FavTeam, data, games, out, i, gamesPerRow, rows, call>>

CallPadtoWidth ==
    /\ pc = "call"
    /\ call.fn = "padtoWidth"
    /\ Return(FALSE, padtoWidth(call.str, call.targetWidth))

CallRenderCircles ==
    /\ pc = "call"
    /\ call.fn = "renderCircles"
    /\ Return(renderCirclesThrows(call.count, call.total),
              renderCircles(call.count, call.total, call.filled, call.empty))

CallFormatGameBox ==
    /\ pc = "call"
    /\ call.fn = "formatGameBox"
    /\ Return(formatGameBoxThrows(call.game), formatGameBox(call.game))

NextFn == CallPadtoWidth \/ CallRenderCircles \/ CallFormatGameBox

SpecFn == InitFn /\ [][NextFn]_vars

-----------------------------------------------------------------------------
(* Properties *)

\* the list as fetched, before any reordering
fetchedGames == GamesOf(data)

Involves(g, fav) == fav \in {g.home, g.away}

\* the reordering step has run
Reordered == pc \in {"grid", "done", "crashed"}

Occurrences(gs, g) == Cardinality({k \in 1..Len(gs) : gs[k] = g})

\* C1: with a favourite team supplied, the reordered list is a stable
\* partition of the fetched list: every game involving the favourite precedes
\* every game that does not, each of the two groups keeps its input order,
\* and the output is a permutation of the input.
C1_StablePartition ==
    (Reordered /\ Truthy(FavTeam)) =>
        LET fav == FavTeam[1]
            Fav(g) == Involves(g, fav)
            NotFav(g) == ~Involves(g, fav)
        IN  /\ \A a, b \in 1..Len(games) :
                 (a < b) => ~(NotFav(games[a]) /\ Fav(games[b]))
            /\ SelectSeq(games, Fav) = SelectSeq(fetchedGames, Fav)
            /\ SelectSeq(games, NotFav) = SelectSeq(fetchedGames, NotFav)
            /\ Len(games) = Len(fetchedGames)
            /\ \A k \in 1..Len(fetchedGames) :
                 Occurrences(games, fetchedGames[k])
                   = Occurrences(fetchedGames, fetchedGames[k])

\* a run that moved games: two distinct favourite games and two distinct
\* other games, the fetched list starting with a game of the other group
C1_Witness ==
    /\ pc = "done"
    /\ Truthy(FavTeam)
    /\ games # fetchedGames
    /\ Cardinality({games[k] : k \in {j \in 1..Len(games) : Involves(games[j], FavTeam[1])}}) >= 2
    /\ Cardinality({games[k] : k \in {j \in 1..Len(games) : ~Involves(games[j], FavTeam[1])}}) >= 2

Ceil(L, N) == (L + N - 1) \div N

\* C2: the rows of renderGameGrid are the consecutive chunks of the list:
\* row k (from 0) holds the games at indices k*N .. min(L, (k+1)*N) - 1 in
\* order; on return there are ceil(L/N) rows, every row but the last has N
\* boxes and the last has L mod N boxes (N when N divides L).
C2_Chunking ==
    LET L == Len(games)
        N == gamesPerRow
    IN  /\ \A r \in 1..Len(rows) :
              LET k == r - 1
                  size == Min(L, (k + 1) * N) - k * N
              IN  /\ rows[r].chunk = [j \in 1..size |-> games[k * N + j]]
                  /\ Len(rows[r].boxes) = size
                  /\ (r < Ceil(L, N)) => size = N
        /\ (pc = "done") =>
              /\ Len(rows) = Ceil(L, N)
              /\ (L > 0) => Len(rows[Len(rows)].boxes) = (IF L % N = 0 THEN N ELSE L % N)

\* a finished grid of several rows whose last row is short
C2_Witness ==
    /\ pc = "done"
    /\ Len(rows) >= 2
    /\ Len(games) % gamesPerRow # 0
    /\ Len(rows[Len(rows)].boxes) < gamesPerRow

\* C3: in every printed chunk each padded box has as many lines as the
\* tallest unpadded box of the chunk; padding keeps a box's own lines in
\* place and only appends filler lines; the chunk prints that many lines and
\* one blank line.
C3_RowPadding ==
    \A r \in 1..Len(rows) :
        LET row  == rows[r]
            n    == Len(row.boxes)
            stop == IF r < Len(rows) THEN rows[r + 1].start ELSE Len(out)
        IN  /\ \A j \in 1..n : Len(row.paddedBoxes[j]) = row.maxHeight
            /\ \A j \in 1..n : Len(row.boxes[j]) <= row.maxHeight
            /\ \E j \in 1..n : Len(row.boxes[j]) = row.maxHeight
            /\ \A j \in 1..n :
                 /\ SubSeq(row.paddedBoxes[j], 1, Len(row.boxes[j])) = row.boxes[j]
                 /\ \A l \in (Len(row.boxes[j]) + 1)..Len(row.paddedBoxes[j]) :
                      row.paddedBoxes[j][l] = Repeat(" ", columnWidth)
            /\ stop = row.start + row.maxHeight + 1
            /\ \A l \in 1..row.maxHeight : out[row.start + l] # <<>>
            /\ out[stop] = <<>>

\* a printed chunk of three boxes of three different statuses
C3_Witness ==
    \E r \in 1..Len(rows) :
        /\ Len(rows[r].boxes) = 3
        /\ Cardinality({rows[r].chunk[j].status : j \in 1..3}) = 3
        /\ Len(out) >= rows[r].start + rows[r].maxHeight + 1

\* the response carries no games list, or an empty one
NoGamesList(d) ==
    \/ ~IsSome(d.dates)
    \/ Len(d.dates[1]) = 0
    \/ ~IsSome(d.dates[1][1].games)
    \/ Len(d.dates[1][1].games[1]) = 0

Fetched == pc \notin {"start", "fetch", "fetch_failed"}

\* C4: when the response has no games list or an empty one, the program
\* prints the single line "No Games found." and exits; the banner, the date
\* line, the reordering and the grid are never reached.
C4_NoGames ==
    (Fetched /\ NoGamesList(data)) =>
        /\ pc \in {"check", "exited"}
        /\ (pc = "check") => out = <<>>
        /\ (pc = "exited") => out = << <<"No Games found.">> >>
        /\ rows = <<>>

\* the exit after a response whose first date has no games or an empty list
C4_Witness ==
    /\ pc = "exited"
    /\ IsSome(data.dates)
    /\ Len(data.dates[1]) > 0
    /\ out = << <<"No Games found.">> >>

Returned(fn) == pc = "returned" /\ call.fn = fn

\* the glyphs of a line, in order
IsGlyph(t) == t \in WideGlyphs \cup NarrowGlyphs

Glyphs(line) == SelectSeq(line, IsGlyph)

\* first c glyphs filled, the other t - c empty
Indicator(c, t, f, e) == [k \in 1..t |-> IF k <= c THEN f ELSE e]

InRange(o, total) == OrElse(o, 0) \in 0..total

\* C7: for 0 <= c <= t renderCircles returns t glyphs, the first c filled
\* and the rest empty; a live box draws balls of 4, strikes of 3 and outs of
\* 3 with it, and its base rows show second, then third and first.
C7_Circles ==
    /\ (call.fn = "renderCircles" /\ pc # "call"
          /\ 0 <= call.count /\ call.count <= call.total) =>
          /\ pc = "returned"
          /\ Len(result.value) = call.total
          /\ \A k \in 1..call.total :
                result.value[k] = (IF k <= call.count THEN call.filled ELSE call.empty)
    /\ (call.fn = "formatGameBox" /\ pc # "call" /\ isLive(call.game)
          /\ InRange(call.game.balls, 4) /\ InRange(call.game.strikes, 3)
          /\ InRange(call.game.outs, 3)) =>
          LET g   == call.game
              box == result.value
              sq(b) == IF b THEN filled ELSE empty
          IN  /\ pc = "returned"
              /\ Glyphs(box[7]) = Indicator(OrElse(g.balls, 0), 4, GreenCircle, WhiteCircle)
              /\ Glyphs(box[8]) = Indicator(OrElse(g.strikes, 0), 3, RedCircle, WhiteCircle)
              /\ Glyphs(box[9]) = <<sq(g.second)>>
                                    \o Indicator(OrElse(g.outs, 0), 3, YellowCircle, WhiteCircle)
              /\ Glyphs(box[10]) = <<sq(g.third), sq(g.first)>>

\* the live box of balls 2, strikes 1, outs 0 with a runner on second only
C7_Witness ==
    /\ Returned("formatGameBox")
    /\ isLive(call.game)
    /\ call.game.balls = Some(2) /\ call.game.strikes = Some(1) /\ call.game.outs = Some(0)
    /\ call.game.second /\ ~call.game.first /\ ~call.game.third
    /\ Glyphs(result.value[7]) = <<GreenCircle, GreenCircle, WhiteCircle, WhiteCircle>>
    /\ Glyphs(result.value[9]) = <<filled, WhiteCircle, WhiteCircle, WhiteCircle>>

\* C8: padtoWidth(S, W) has visible width at least W; it is S itself when S
\* is already W wide or wider, and otherwise S followed by spaces only, of
\* visible width exactly W; S is always a prefix of the result.
C8_PadtoWidth ==
    Returned("padtoWidth") =>
        LET S == call.str
            W == call.targetWidth
            R == result.value
        IN  /\ stringWidth(R) >= W
            /\ (stringWidth(S) >= W) => R = S
            /\ (stringWidth(S) < W) =>
                  /\ stringWidth(R) = W
                  /\ \A k \in (Len(S) + 1)..Len(R) : R[k] = " "
            /\ Len(R) >= Len(S)
            /\ SubSeq(R, 1, Len(S)) = S

\* a coloured string narrower than the target, padded out
C8_Witness ==
    /\ Returned("padtoWidth")
    /\ \E k \in 1..Len(call.str) : call.str[k] \in AnsiCodes
    /\ \E k \in 1..Len(call.str) : call.str[k] \in WideGlyphs
    /\ stringWidth(call.str) < call.targetWidth
    /\ Len(result.value) > Len(call.str)

\* the classification the status string is given: Live, Final, Scheduled, Other
Classify(status) ==
    IF Includes(status, "In Progress") THEN "Live"
    ELSE IF Includes(status, "Final") THEN "Final"
    ELSE IF Includes(status, "Scheduled") \/ Includes(status, "Pre-Game") THEN "Scheduled"
    ELSE "Other"

\* the token of a line that follows the token tok
After(line, tok) == line[(CHOOSE k \in 1..Len(line) : line[k] = tok) + 1]

\* the colour escape that opens the status text of a box
StatusLineColor(box) == After(box[3], "Status: ")

\* which status-dependent block a box carries, read off its first block line
BlockOf(box) ==
    LET line == box[7]
    IN  IF \E k \in 1..Len(line) : line[k] = "P: " THEN "Live"
        ELSE IF \E k \in 1..Len(line) : line[k] = "W: " THEN "Final"
        ELSE IF \E k \in 1..Len(line) : line[k] = "H: " THEN "Scheduled"
        ELSE "Other"

ColorOf(class) ==
    CASE class = "Live" -> Green.open
      [] class = "Final" -> Red.open
      [] OTHER -> Yellow.open

\* C5: the colour of the status line and the status-dependent block both
\* follow the one classification of the status string (Live, else Final,
\* else Scheduled, else Other).
C5_OneClassification ==
    Returned("formatGameBox") =>
        LET class == Classify(call.game.status)
            box   == result.value
        IN  /\ StatusLineColor(box) = ColorOf(class)
            /\ BlockOf(box) = class

Placeholders == {"-", "?"}

\* the token shown for an optional text field: its value, or a placeholder
ShowsText(tok, o) == IF IsSome(o) THEN tok = o[1] ELSE tok \in Placeholders

\* the token shown for an optional number
ShowsNumber(tok, o) == IF IsSome(o) THEN tok = ToString(o[1]) ELSE tok \in Placeholders

\* the first word shown for an optional full name
ShowsName(tok, o) == IF IsSome(o) THEN tok = o[1][1] ELSE tok \in Placeholders

\* the last name shown for an optional full name
ShowsLastName(tok, o) == IF IsSome(o) THEN tok = LastName(o[1]) ELSE tok \in Placeholders

ShowsRHE(line, rhe) ==
    /\ ShowsNumber(After(line, "R:"), rhe.runs)
    /\ ShowsNumber(After(line, "H:"), rhe.hits)
    /\ ShowsNumber(After(line, "E:"), rhe.errors)

ProbableField(p, f) == IF IsSome(p) THEN p[1][f] ELSE None

ShowsProbable(nameLine, prefix, summaryLine, p) ==
    /\ ShowsName(After(nameLine, prefix), ProbableField(p, "fullName"))
    /\ ShowsText(summaryLine[5], ProbableField(p, "hand"))
    /\ ShowsText(After(summaryLine, "HP "), ProbableField(p, "summary"))

\* C6: with any subset of the optional fields absent formatGameBox returns,
\* and every displayed field shows its value or a placeholder "-" or "?".
C6_Placeholders ==
    (call.fn = "formatGameBox" /\ pc # "call"
       /\ InRange(call.game.balls, 4) /\ InRange(call.game.strikes, 3)
       /\ InRange(call.game.outs, 3)) =>
        LET g     == call.game
            box   == result.value
            class == BlockOf(box)
        IN  /\ pc = "returned"
            /\ IF IsSome(g.inningHalf) /\ IsSome(g.currentInning)
               THEN After(box[4], "Inning: ") = g.inningHalf[1]
               ELSE After(box[4], "Inning: ") \in Placeholders
            /\ ShowsRHE(box[5], g.awayRHE)
            /\ ShowsRHE(box[6], g.homeRHE)
            /\ (class = "Live") =>
                  /\ ShowsLastName(After(box[7], "P: "), g.pitcher)
                  /\ ShowsLastName(After(box[8], "B: "), g.batter)
            /\ (class = "Final") =>
                  /\ ShowsName(After(box[7], "W: "), g.winner)
                  /\ ShowsName(After(box[8], "L: "), g.loser)
                  /\ ShowsName(After(box[9], "S: "), g.save)
            /\ (class = "Scheduled") =>
                  /\ ShowsProbable(box[7], "H: ", box[8], g.homeProbable)
                  /\ ShowsProbable(box[9], "A: ", box[10], g.awayProbable)

\* C9: every box has the same number of lines, and every line is
\* columnWidth + 2 columns wide, whatever the record holds.
C9_FixedSize ==
    Returned("formatGameBox") =>
        /\ Len(result.value) = 11
        /\ \A k \in 1..Len(result.value) : stringWidth(result.value[k]) = columnWidth + 2

OutOfRange(g) ==
    /\ isLive(g)
    /\ ~(InRange(g.balls, 4) /\ InRange(g.strikes, 3) /\ InRange(g.outs, 3))

RECURSIVE TotalBoxes(_)
TotalBoxes(rs) == IF Len(rs) = 0 THEN 0 ELSE Len(rs[1].boxes) + TotalBoxes(Tail(rs))

\* C10: a live game with an indicator count outside its range raises no
\* error: the grid is not aborted, and the box of every game is printed.
C10_OutOfRangeIsCosmetic ==
    (\E k \in 1..Len(games) : OutOfRange(games[k])) =>
        /\ pc # "crashed"
        /\ (pc = "done") => TotalBoxes(rows) = Len(games)

====
